---- MODULE Spec2Model ----
(***************************************************************************)
(* The exercise-session screens of the study companion: the quiz          *)
(* (src/app/quiz.tsx) and the timed mock exam (src/unnamed/part_003),     *)
(* together with the append-only Attempt log they write to.               *)
(*                                                                         *)
(* A screen is a React function component.  Its state is the record of    *)
(* its useState cells (quiz, mock); what is on the screen, and what the   *)
(* handlers the screen exposes have closed over, is the state as of the   *)
(* last render (quizView, mockView).  A handler reads the rendered        *)
(* values, except inside a functional updater (setX(prev => ...)), which  *)
(* reads the current state.  The updates a press handler makes            *)
(* synchronously are rendered before the next event is dispatched; the    *)
(* updates made after an await or from a timer callback are rendered by   *)
(* a later, separate step.                                                 *)
(***************************************************************************)
EXTENDS Integers, Sequences, FiniteSets, TLC

VARIABLES
    attempts,     \* the Attempt log of the store, oldest first
    quiz,         \* QuizScreen: the useState cells
    quizView,     \* QuizScreen: the cells as last rendered
    quizLoads,    \* QuizScreen: loadExercises calls awaiting the store
    quizMounted,  \* QuizScreen is on the navigation stack
    quizSession,  \* number of the quiz session (a restart starts the next)
    quizPending,  \* QuizScreen: handler calls made since the last render
    mock,         \* MockExamScreen: the useState cells
    mockView,     \* MockExamScreen: the cells as last rendered
    mockLoads,    \* MockExamScreen: loadExercises calls awaiting the store
    mockMounted,  \* MockExamScreen is on the navigation stack
    timer,        \* the setInterval of the timer effect and what it closed over
    finishes,     \* the handleFinish calls made so far, in call order
    days,         \* daysUntilExam: the device's zone and clock, the exam date, the result
    detail,       \* SubjectDetailScreen: the lessons cell and the progress rendered
    rec,          \* getRecommendedLessons: the store's rows, the count asked, the result
    qa,           \* POST /api/pdf/qa: the request, the environment, the response
    extract,      \* POST /api/pdf/extract: the upload, the parser's answer, the responses
    load,         \* loadExercises of QuizScreen: the route's params, the store, the list set
    store,        \* the store as AppProvider reads it
    clock,        \* the device's local calendar day
    app,          \* AppProvider: the useState cells and the daysUntilExam memo
    refreshes     \* the refreshData and initializeApp calls made so far, in call order

vars == <<attempts, quiz, quizView, quizLoads, quizMounted, quizSession,
          quizPending, mock, mockView, mockLoads, mockMounted, timer, finishes,
          days, detail, rec, qa, extract, load, store, clock, app, refreshes>>

quizVars == <<quiz, quizView, quizLoads, quizMounted, quizSession, quizPending>>
mockVars == <<mock, mockView, mockLoads, mockMounted, timer, finishes>>
appVars == <<store, clock, app, refreshes>>
\* the variables of the parts other than the two session screens
restVars == <<days, detail, rec, qa, extract, load, appVars>>

----------------------------------------------------------------------------
(* Bounds of the model. *)

\* exercises in the store
NumExercises == 2
\* answer options of an exercise
NumOptions == 2
\* seconds on the mock-exam clock at the start (the source's 3600, scaled)
MaxTimeLeft == 2
\* handleFinish calls followed in one mock exam
MaxFinishCalls == 2
\* quiz sessions followed (the first and the restarts)
MaxSessions == 2
\* calls of quiz handlers followed between two renders, where handlers are
\* called again before the screen has rendered
MaxRapidCalls == 2
\* the last calendar day of the exam dates and clock readings followed
MaxDay == 3
\* calls of AppProvider's operations followed, initializeApp included
MaxAppCalls == 2
\* the same, where the onboarding and the reset are followed too
MaxSettingsCalls == 3
\* the lessons of a subject, at most
MaxLessons == 3
\* the times SubjectDetailScreen gains focus, at most
MaxLoads == 2
\* the rows of the Attempt log the recommendations are computed from, at most
MaxLog == 3
\* the characters of a text the PDF parser returns, at most
MaxTextLen == 4
\* the exercises of the store the quiz draws from
MaxStoreExercises == 12
\* midnights that pass while the app is open
MaxMidnights == 1
\* writes to the store by the other screens
MaxRevision == 1

----------------------------------------------------------------------------
(* Program constants and data. *)

NULL == -1
MOCK_EXAM_QUESTIONS == 30
MOCK_EXAM_DURATION == 60 * 60
QUIZ_QUESTIONS == 10

Min(a, b) == IF a <= b THEN a ELSE b

SetMin(S) == CHOOSE x \in S : \A y \in S : x <= y

ExerciseIds == 1..NumExercises
Options == 0..(NumOptions - 1)

\* Exercise.correct_index: within the bounds of the options
correct_index(e) == e % NumOptions

\* useState(MOCK_EXAM_DURATION), on the scaled clock
InitialTimeLeft == Min(MOCK_EXAM_DURATION, MaxTimeLeft)

\* the lists of distinct exercises of length at most k
ExerciseLists(k) ==
    {s \in UNION {[1..n -> ExerciseIds] : n \in 0..Min(k, NumExercises)} :
        \A i, j \in 1..Len(s) : i # j => s[i] # s[j]}

\* getRandomExercises(limit): up to limit exercises of the store, in random order
getRandomExercises(limit) == ExerciseLists(IF limit > 0 THEN limit ELSE 0)

\* new Array(n).fill(null)
NullArray(n) == [i \in 1..n |-> NULL]

\* const isCorrect = answer === exercise.correct_index
IsCorrect(answer, e) == answer = correct_index(e)

\* saveAttempt(exerciseId, selectedIndex, isCorrect, timeSpent): the row appended;
\* tag is not a column: it names the session (quiz) or handleFinish call (mock
\* exam) that wrote the row
saveAttempt(e, answer, isCorrect, tag) ==
    [exercise_id |-> e, selected_index |-> answer, is_correct |-> isCorrect,
     tag |-> tag]

----------------------------------------------------------------------------
(* MockExamScreen (src/unnamed/part_003). *)

MockInitState ==
    [exercises |-> <<>>, answers |-> <<>>, currentIndex |-> 0,
     timeLeft |-> InitialTimeLeft, isComplete |-> FALSE, isLoading |-> TRUE]

TimerOff == [active |-> FALSE, exercises |-> <<>>, answers |-> <<>>]

\* which of the three returns of the component a render takes
Mock_screen(v) ==
    IF v.isLoading THEN "loading"
    ELSE IF v.isComplete THEN "complete"
    ELSE "main"

\* const currentExercise = exercises[currentIndex]
Mock_hasCurrentExercise(v) == (v.currentIndex + 1) \in 1..Len(v.exercises)

\* the question card reads currentExercise.question: a render of the exam
\* screen with no current exercise throws
Mock_renderThrows(v) == Mock_screen(v) = "main" /\ ~Mock_hasCurrentExercise(v)

\* the dependency list of the timer effect
Mock_timerDeps(v) == <<v.isLoading, v.isComplete, v.timeLeft>>

\* the condition under which the timer effect sets its interval
Mock_timerRuns(v) == ~v.isLoading /\ ~v.isComplete /\ v.timeLeft > 0

\* The timer effect after a render of v: when a dependency changed, the
\* cleanup clears the interval and the effect sets a new one, whose callback
\* holds the handleFinish of that render (its exercises and answers).
Mock_timerEffect(old, v, t) ==
    IF Mock_timerDeps(v) = Mock_timerDeps(old) THEN t
    ELSE IF Mock_timerRuns(v)
         THEN [active |-> TRUE, exercises |-> v.exercises, answers |-> v.answers]
         ELSE TimerOff

\* A render of state s and the effects that follow it.  A render that throws
\* unmounts the screen: its state is dropped and the cleanup clears the
\* interval.
Mock_commit(s) ==
    IF Mock_renderThrows(s)
    THEN /\ mockView' = MockInitState
         /\ mockMounted' = FALSE
         /\ timer' = TimerOff
    ELSE /\ mockView' = s
         /\ mockMounted' = mockMounted
         /\ timer' = Mock_timerEffect(mockView, s, timer)

\* count + (answers[index] === exercise.correct_index ? 1 : 0)
Mock_scores(answer, e) == IF answer = correct_index(e) THEN 1 ELSE 0

\* exercises.reduce(...): the score shown on the result screen, over the first
\* n exercises
RECURSIVE Mock_reduce(_, _)
Mock_reduce(v, n) ==
    IF n = 0 THEN 0
    ELSE Mock_reduce(v, n - 1) + Mock_scores(v.answers[n], v.exercises[n])

Mock_correctCount(v) == Mock_reduce(v, Len(v.exercises))

\* a faulty variant of the test below: every answer is saved, null included
Mock_writesAttempt_Always(answer) == TRUE

\* if (answer !== null): the answers handleFinish writes an Attempt for
Mock_writesAttempt(answer) == answer # NULL

\* the loop of handleFinish from index i (1-based) to its next await: the
\* index of the next exercise it saves an Attempt for, 0 when the loop ends
Mock_nextWrite(answers, i) ==
    LET S == {j \in i..Len(answers) : Mock_writesAttempt(answers[j])}
    IN  IF S = {} THEN 0 ELSE SetMin(S)

\* a faulty variant of the statement below: handleFinish ends without it
Mock_setComplete_Missing(s) == s

\* setIsComplete(true), the last statement of handleFinish
Mock_setComplete(s) == [s EXCEPT !.isComplete = TRUE]

\* handleFinish is running in call k of finishes
Mock_running(k) == k \in 1..Len(finishes) /\ ~finishes[k].done

\* a handleFinish call that returned
FinishDone(p) ==
    [exercises |-> <<>>, answers |-> <<>>, i |-> 0, done |-> TRUE, by |-> p.by,
     cutoff |-> {}, rendered |-> FALSE]

\* One run of handleFinish call k with position p, up to its next await or its
\* end: the rows it appends, the call's record after it, whether it completed.
Mock_finishRun(k, p) ==
    LET j == Mock_nextWrite(p.answers, p.i)
    IN  IF j = 0
        THEN [rows |-> <<>>, proc |-> FinishDone(p), complete |-> TRUE]
        ELSE [rows |-> <<saveAttempt(p.exercises[j], p.answers[j],
                                    IsCorrect(p.answers[j], p.exercises[j]), k)>>,
              proc |-> [p EXCEPT !.i = j + 1],
              complete |-> FALSE]

\* the exercises of state s that have an answer
Mock_answered(s) ==
    {s.exercises[i] : i \in {j \in 1..Len(s.exercises) : s.answers[j] # NULL}}

\* a call of handleFinish from a closure over (exercises, answers).  by,
\* cutoff and rendered are not program state: by names the caller; for a call
\* by the timer, cutoff keeps the exercises answered in the state at the call
\* and rendered whether the screen showed that state.
Mock_newFinish(exercises, answers, by) ==
    [exercises |-> exercises, answers |-> answers, i |-> 1, done |-> FALSE,
     by |-> by,
     cutoff |-> IF by = "timer" THEN Mock_answered(mock) ELSE {},
     rendered |-> by = "timer" /\ mockView = mock]

\* handleFinish(): the call and its first run; s is the state it acts on
Mock_handleFinish(exercises, answers, by, s) ==
    LET k == Len(finishes) + 1
        r == Mock_finishRun(k, Mock_newFinish(exercises, answers, by))
    IN  /\ Len(finishes) < MaxFinishCalls
        /\ finishes' = Append(finishes, r.proc)
        /\ attempts' = attempts \o r.rows
        /\ mock' = IF r.complete THEN Mock_setComplete(s) ELSE s

\* loadExercises resumes after getRandomExercises
Mock_loadExercises ==
    /\ mockLoads > 0
    /\ mockMounted
    /\ \E list \in getRandomExercises(MOCK_EXAM_QUESTIONS) :
          mock' = [mock EXCEPT !.exercises = list,
                               !.answers = NullArray(Len(list)),
                               !.isLoading = FALSE]
    /\ mockLoads' = mockLoads - 1
    /\ UNCHANGED <<restVars, quizVars, attempts, mockView, mockMounted, timer, finishes>>

\* getRandomExercises rejects: catch, finally
Mock_loadExercisesFails ==
    /\ mockLoads > 0
    /\ mockMounted
    /\ mock' = [mock EXCEPT !.isLoading = FALSE]
    /\ mockLoads' = mockLoads - 1
    /\ UNCHANGED <<restVars, quizVars, attempts, mockView, mockMounted, timer, finishes>>

\* the render of the updates made after an await or by the timer
Mock_render ==
    /\ mockMounted
    /\ mockView # mock
    /\ Mock_commit(mock)
    /\ mock' = IF Mock_renderThrows(mock) THEN MockInitState ELSE mock
    /\ UNCHANGED <<restVars, quizVars, attempts, mockLoads, finishes>>

\* the exam screen is displayed: its handlers can be called
Mock_examShown == mockMounted /\ Mock_screen(mockView) = "main"

Mock_handleSelectOption ==
    /\ Mock_examShown
    /\ \E index \in Options :
          mock' = [mock EXCEPT !.answers =
                      [mockView.answers EXCEPT ![mockView.currentIndex + 1] = index]]
    /\ Mock_commit(mock')
    /\ UNCHANGED <<restVars, quizVars, attempts, mockLoads, finishes>>

\* a faulty variant of the handler below: no test against the last exercise
Mock_handleNext_Unguarded ==
    /\ Mock_examShown
    /\ mock' = [mock EXCEPT !.currentIndex = mock.currentIndex + 1]
    /\ Mock_commit(mock')
    /\ UNCHANGED <<restVars, quizVars, attempts, mockLoads, finishes>>

Mock_handleNext ==
    /\ Mock_examShown
    /\ mock' = IF mockView.currentIndex < Len(mockView.exercises) - 1
               THEN [mock EXCEPT !.currentIndex = mock.currentIndex + 1]
               ELSE mock
    /\ Mock_commit(mock')
    /\ UNCHANGED <<restVars, quizVars, attempts, mockLoads, finishes>>

Mock_handlePrevious ==
    /\ Mock_examShown
    /\ mock' = IF mockView.currentIndex > 0
               THEN [mock EXCEPT !.currentIndex = mock.currentIndex - 1]
               ELSE mock
    /\ Mock_commit(mock')
    /\ UNCHANGED <<restVars, quizVars, attempts, mockLoads, finishes>>

\* a progress dot: setCurrentIndex(index)
Mock_pressDot ==
    /\ Mock_examShown
    /\ \E index \in 0..(Len(mockView.exercises) - 1) :
          mock' = [mock EXCEPT !.currentIndex = index]
    /\ Mock_commit(mock')
    /\ UNCHANGED <<restVars, quizVars, attempts, mockLoads, finishes>>

\* the finish button: onPress={handleFinish}
Mock_pressFinish ==
    /\ Mock_examShown
    /\ Mock_handleFinish(mockView.exercises, mockView.answers, "button", mock)
    /\ Mock_commit(mock')
    /\ UNCHANGED <<restVars, quizVars, mockLoads>>

\* handleFinish call k resumes after its await of saveAttempt
Mock_finishResumes(k) ==
    /\ Mock_running(k)
    /\ LET r == Mock_finishRun(k, finishes[k])
       IN  /\ finishes' = [finishes EXCEPT ![k] = r.proc]
           /\ attempts' = attempts \o r.rows
           /\ mock' = IF r.complete /\ mockMounted
                      THEN Mock_setComplete(mock) ELSE mock
    /\ UNCHANGED <<restVars, quizVars, mockView, mockLoads, mockMounted, timer>>

\* a faulty variant of the step below: the updater takes two seconds off
Mock_tick_ByTwo ==
    /\ mockMounted
    /\ timer.active
    /\ mockView.timeLeft = mock.timeLeft
    /\ IF mock.timeLeft <= 1
       THEN Mock_handleFinish(timer.exercises, timer.answers, "timer",
                              [mock EXCEPT !.timeLeft = 0])
       ELSE /\ mock' = [mock EXCEPT !.timeLeft = mock.timeLeft - 2]
            /\ UNCHANGED <<attempts, finishes>>
    /\ UNCHANGED <<restVars, quizVars, mockView, mockLoads, mockMounted, timer>>

\* The interval fires: setTimeLeft((prev) => ...).  It fires 1000 ms after it
\* was set or last fired, and the screen has rendered the last tick by then.
Mock_tick ==
    /\ mockMounted
    /\ timer.active
    /\ mockView.timeLeft = mock.timeLeft
    /\ IF mock.timeLeft <= 1
       THEN Mock_handleFinish(timer.exercises, timer.answers, "timer",
                              [mock EXCEPT !.timeLeft = 0])
       ELSE /\ mock' = [mock EXCEPT !.timeLeft = mock.timeLeft - 1]
            /\ UNCHANGED <<attempts, finishes>>
    /\ UNCHANGED <<restVars, quizVars, mockView, mockLoads, mockMounted, timer>>

\* router.back(): the screen is left; its state is dropped and the effect's
\* cleanup clears the interval
Mock_back ==
    /\ mockMounted
    /\ Mock_screen(mockView) # "loading"
    /\ mockMounted' = FALSE
    /\ mock' = MockInitState
    /\ mockView' = MockInitState
    /\ timer' = TimerOff
    /\ UNCHANGED <<restVars, quizVars, attempts, mockLoads, finishes>>

MockNext ==
    \/ Mock_loadExercises
    \/ Mock_loadExercisesFails
    \/ Mock_render
    \/ Mock_handleSelectOption
    \/ Mock_handleNext
    \/ Mock_handlePrevious
    \/ Mock_pressDot
    \/ Mock_pressFinish
    \/ \E k \in 1..MaxFinishCalls : Mock_finishResumes(k)
    \/ Mock_tick
    \/ Mock_back

----------------------------------------------------------------------------
(* QuizScreen (src/app/quiz.tsx). *)

QuizInitState ==
    [exercises |-> <<>>, currentIndex |-> 0, selectedIndex |-> NULL,
     showResult |-> FALSE, correctCount |-> 0, isComplete |-> FALSE,
     isLoading |-> TRUE]

\* which of the four returns of the component a render takes
Quiz_screen(v) ==
    IF v.isLoading THEN "loading"
    ELSE IF Len(v.exercises) = 0 THEN "empty"
    ELSE IF v.isComplete THEN "complete"
    ELSE "main"

\* const currentExercise = exercises[currentIndex]
Quiz_hasCurrentExercise(v) == (v.currentIndex + 1) \in 1..Len(v.exercises)

Quiz_currentExercise(v) == v.exercises[v.currentIndex + 1]

\* the question card reads currentExercise.question: a render of the quiz
\* screen with no current exercise throws
Quiz_renderThrows(v) == Quiz_screen(v) = "main" /\ ~Quiz_hasCurrentExercise(v)

\* A render of state s.  A render that throws unmounts the screen and drops
\* its state.
Quiz_commit(s) ==
    IF Quiz_renderThrows(s)
    THEN /\ quiz' = QuizInitState
         /\ quizView' = QuizInitState
         /\ quizMounted' = FALSE
         /\ quizPending' = 0
    ELSE /\ quiz' = s
         /\ quizView' = s
         /\ quizMounted' = quizMounted
         /\ quizPending' = 0

\* A press handler leaves state s.  sync: the screen renders before the next
\* event; otherwise the render is a later step and the handlers of the last
\* render can be called again before it.
Quiz_handled(s, sync) ==
    IF sync
    THEN Quiz_commit(s)
    ELSE /\ quizPending < MaxRapidCalls
         /\ quiz' = s
         /\ quizPending' = quizPending + 1
         /\ UNCHANGED <<quizView, quizMounted>>

\* the lists loadExercises ends with: the exercises the store returned,
\* filtered, shuffled, .slice(0, 10)
Quiz_loadedLists == getRandomExercises(QUIZ_QUESTIONS)

\* loadExercises resumes after the store's answer
Quiz_loadExercises ==
    /\ quizLoads > 0
    /\ quizMounted
    /\ \E list \in Quiz_loadedLists :
          quiz' = [quiz EXCEPT !.exercises = list, !.isLoading = FALSE]
    /\ quizLoads' = quizLoads - 1
    /\ UNCHANGED <<restVars, mockVars, attempts, quizView, quizMounted, quizSession, quizPending>>

\* the store rejects: catch, finally
Quiz_loadExercisesFails ==
    /\ quizLoads > 0
    /\ quizMounted
    /\ quiz' = [quiz EXCEPT !.isLoading = FALSE]
    /\ quizLoads' = quizLoads - 1
    /\ UNCHANGED <<restVars, mockVars, attempts, quizView, quizMounted, quizSession, quizPending>>

\* the render of the updates not yet on the screen
Quiz_render ==
    /\ quizMounted
    /\ quizView # quiz
    /\ Quiz_commit(quiz)
    /\ UNCHANGED <<restVars, mockVars, attempts, quizLoads, quizSession>>

\* the quiz screen is displayed: its handlers can be called
Quiz_quizShown == quizMounted /\ Quiz_screen(quizView) = "main"

\* a faulty variant of the handler below: no return while the result is shown
Quiz_selectOption_Unguarded(v, s, index) == [s EXCEPT !.selectedIndex = index]

\* handleSelectOption(index), from the closure v, on state s
Quiz_selectOption(v, s, index) ==
    IF v.showResult THEN s ELSE [s EXCEPT !.selectedIndex = index]

Quiz_handleSelectOption(sync) ==
    /\ Quiz_quizShown
    /\ \E index \in Options :
          Quiz_handled(Quiz_selectOption(quizView, quiz, index), sync)
    /\ UNCHANGED <<restVars, mockVars, attempts, quizLoads, quizSession>>

\* a faulty variant of the test below: a null selection does not return
Quiz_checkReturns_NoNullTest(v) == ~Quiz_hasCurrentExercise(v)

\* if (selectedIndex === null || !currentExercise) return;
Quiz_checkReturns(v) == v.selectedIndex = NULL \/ ~Quiz_hasCurrentExercise(v)

\* const isCorrect = selectedIndex === currentExercise.correct_index
Quiz_isCorrect(v) == v.selectedIndex = correct_index(Quiz_currentExercise(v))

\* a faulty variant of the definition below: every check adds to the count
Quiz_check_CountsAll(v, s) ==
    IF Quiz_checkReturns(v) THEN s
    ELSE [s EXCEPT !.showResult = TRUE, !.correctCount = @ + 1]

\* the state handleCheck leaves, from the closure v, on state s
Quiz_check(v, s) ==
    IF Quiz_checkReturns(v) THEN s
    ELSE [s EXCEPT !.showResult = TRUE,
                   !.correctCount = IF Quiz_isCorrect(v) THEN @ + 1 ELSE @]

\* the rows handleCheck saves, from the closure v
Quiz_checkSaves(v) ==
    IF Quiz_checkReturns(v) THEN <<>>
    ELSE <<saveAttempt(Quiz_currentExercise(v), v.selectedIndex, Quiz_isCorrect(v),
                      quizSession)>>

\* the check button: rendered while the result is not shown
Quiz_handleCheck(sync) ==
    /\ Quiz_quizShown
    /\ ~quizView.showResult
    /\ attempts' = attempts \o Quiz_checkSaves(quizView)
    /\ Quiz_handled(Quiz_check(quizView, quiz), sync)
    /\ UNCHANGED <<restVars, mockVars, quizLoads, quizSession>>

\* setCurrentIndex((prev) => prev + 1)
Quiz_nextIndex(prev) == prev + 1

\* a faulty variant of the test below: the last exercise is taken one early
Quiz_hasNext_OffByOne(v) == v.currentIndex < Len(v.exercises) - 2

\* if (currentIndex < exercises.length - 1)
Quiz_hasNext(v) == v.currentIndex < Len(v.exercises) - 1

\* handleNext, from the closure v, on state s
Quiz_next(v, s) ==
    IF Quiz_hasNext(v)
    THEN [s EXCEPT !.currentIndex = Quiz_nextIndex(@), !.selectedIndex = NULL,
                   !.showResult = FALSE]
    ELSE [s EXCEPT !.isComplete = TRUE]

\* the next button: rendered while the result is shown
Quiz_handleNext(sync) ==
    /\ Quiz_quizShown
    /\ quizView.showResult
    /\ Quiz_handled(Quiz_next(quizView, quiz), sync)
    /\ UNCHANGED <<restVars, mockVars, attempts, quizLoads, quizSession>>

\* the "new exercises" button of the result screen; its loadExercises() call
\* runs to its await
Quiz_restart(sync) ==
    /\ quizMounted
    /\ Quiz_screen(quizView) = "complete"
    /\ quizSession < MaxSessions
    /\ Quiz_handled([quiz EXCEPT !.currentIndex = 0, !.selectedIndex = NULL,
                                 !.showResult = FALSE, !.correctCount = 0,
                                 !.isComplete = FALSE, !.isLoading = TRUE], sync)
    /\ quizLoads' = quizLoads + 1
    /\ quizSession' = quizSession + 1
    /\ UNCHANGED <<restVars, mockVars, attempts>>

\* router.back(): the screen is left and its state dropped
Quiz_back ==
    /\ quizMounted
    /\ Quiz_screen(quizView) # "loading"
    /\ quizMounted' = FALSE
    /\ quiz' = QuizInitState
    /\ quizView' = QuizInitState
    /\ quizPending' = 0
    /\ UNCHANGED <<restVars, mockVars, attempts, quizLoads, quizSession>>

\* The screen regains focus while mounted: the focus effect calls
\* loadExercises() again, which runs to its await.  The cells of the session
\* (currentIndex, selectedIndex, showResult, correctCount, isComplete) are
\* left as they are.
Quiz_focus ==
    /\ quizMounted
    /\ quizLoads = 0
    /\ Quiz_commit([quiz EXCEPT !.isLoading = TRUE])
    /\ quizLoads' = quizLoads + 1
    /\ UNCHANGED <<restVars, mockVars, attempts, quizSession>>

QuizNextSync ==
    \/ Quiz_loadExercises
    \/ Quiz_loadExercisesFails
    \/ Quiz_render
    \/ Quiz_handleSelectOption(TRUE)
    \/ Quiz_handleCheck(TRUE)
    \/ Quiz_handleNext(TRUE)
    \/ Quiz_restart(TRUE)
    \/ Quiz_back

QuizNextFocus ==
    \/ Quiz_loadExercises
    \/ Quiz_loadExercisesFails
    \/ Quiz_render
    \/ Quiz_handleSelectOption(TRUE)
    \/ Quiz_handleCheck(TRUE)
    \/ Quiz_handleNext(TRUE)
    \/ Quiz_restart(TRUE)
    \/ Quiz_back
    \/ Quiz_focus

QuizNextRapid ==
    \/ Quiz_loadExercises
    \/ Quiz_loadExercisesFails
    \/ Quiz_render
    \/ Quiz_handleSelectOption(FALSE)
    \/ Quiz_handleCheck(FALSE)
    \/ Quiz_handleNext(FALSE)
    \/ Quiz_restart(FALSE)
    \/ Quiz_back

----------------------------------------------------------------------------
(* daysUntilExam of AppProvider (src/unnamed/part_001).  An instant is a     *)
(* number of hours since the epoch, in place of the source's milliseconds;   *)
(* a calendar day is numbered from the epoch's day.  A zone has a standard   *)
(* offset from UTC (hours) and at most one change of offset, of shift hours, *)
(* at 02:00 standard time of its day tday.                                   *)

\* 1000 * 60 * 60 * 24, in hours
HOURS_PER_DAY == 24

\* Math.ceil(a / b), b > 0
Ceil(a, b) == -((-a) \div b)

\* Math.max(a, b)
Max(a, b) == IF a >= b THEN a ELSE b

Zones ==
    [std : (-1)..1, shift : {-1, 0, 1}, tday : 1..MaxDay]

\* the instant the zone's offset changes
ZoneChange(z) == HOURS_PER_DAY * z.tday + 2 - z.std

\* the zone's offset from UTC at instant t
ZoneOffset(z, t) == z.std + (IF t >= ZoneChange(z) THEN z.shift ELSE 0)

\* the local calendar day of instant t
LocalDay(z, t) == (t + ZoneOffset(z, t)) \div HOURS_PER_DAY

\* the instant of local midnight at the start of calendar day d
LocalMidnight(z, d) ==
    HOURS_PER_DAY * d - (z.std + (IF d > z.tday THEN z.shift ELSE 0))

\* date.setHours(0, 0, 0, 0)
setHours0(z, t) == LocalMidnight(z, LocalDay(z, t))

\* Settings.exam_date when null or empty: !settings?.exam_date
NoExamDate == [form |-> "absent", day |-> 0]

\* Settings.exam_date: absent, or the text of a calendar day, in a form that
\* Date parses as UTC ("date": year-month-day alone) or as local time ("local")
ExamDates ==
    {NoExamDate} \cup [form : {"date", "local"}, day : 0..MaxDay]

\* new Date(settings.exam_date)
NewDate(z, exam_date) ==
    IF exam_date.form = "date" THEN HOURS_PER_DAY * exam_date.day
    ELSE LocalMidnight(z, exam_date.day)

\* the body of the daysUntilExam memo; now is the instant new Date() reads
daysUntilExam(z, now, exam_date) ==
    IF exam_date = NoExamDate THEN 0
    ELSE LET examDate == setHours0(z, NewDate(z, exam_date))
             today == setHours0(z, now)
             diffTime == examDate - today
             diffDays == Ceil(diffTime, HOURS_PER_DAY)
         IN  Max(0, diffDays)

\* the hours of the day at which the clock is read
ClockHours == {0, 1, 3, 12, 23}

DaysIdle == [zone |-> [std |-> 0, shift |-> 0, tday |-> 1], now |-> 0,
             exam_date |-> NoExamDate, result |-> NULL]

\* the memo is evaluated
Days_compute ==
    /\ days.result = NULL
    /\ days' = [days EXCEPT
                  !.result = daysUntilExam(days.zone, days.now, days.exam_date)]
    /\ UNCHANGED <<attempts, quizVars, mockVars, detail, rec, qa, appVars, extract, load>>

----------------------------------------------------------------------------
(* AppProvider (src/unnamed/part_001): the store it reads, its useState      *)
(* cells, the daysUntilExam memo, and its asynchronous operations.  A cell   *)
(* that holds the result of a query records the revision of the store the    *)
(* query read (rev) and the call that published it (by); neither is program  *)
(* state, they tell the results of different reads apart.  Each await of the *)
(* store yields to the event loop, and React renders the updates made after  *)
(* one await before the next one answers: a step ends with the render.       *)

\* the zone of the device in this part: UTC, no change of offset
AppZone == [std |-> 0, shift |-> 0, tday |-> 1]

\* the instant new Date() reads on local day d
Noon(d) == HOURS_PER_DAY * d + 12

\* a faulty variant of the list below: the refresh writes the Settings row
\* before it reads it
refreshData_calls_Writing ==
    <<"updateSettings", "getSettings", "getSubjects", "getSubjectProgress",
      "getRecommendedLessons", "getTodayStudyMinutes">>

\* the functions of @/db/database each operation awaits, in order
refreshData_calls ==
    <<"getSettings", "getSubjects", "getSubjectProgress",
      "getRecommendedLessons", "getTodayStudyMinutes">>

initializeApp_calls ==
    <<"initDatabase", "seedDatabase">> \o refreshData_calls

updateAppSettings_calls == <<"updateSettings", "getSettings">>

\* resetAppData awaits resetDatabase and then initializeApp
resetAppData_calls == <<"resetDatabase">> \o initializeApp_calls

\* kind "update" is updateAppSettings({exam_date}), kind "onboard" is
\* updateAppSettings({onboarding_complete})
CallsOf(kind) ==
    CASE kind = "init" -> initializeApp_calls
      [] kind = "refresh" -> refreshData_calls
      [] kind = "update" -> updateAppSettings_calls
      [] kind = "onboard" -> updateAppSettings_calls
      [] kind = "reset" -> resetAppData_calls

\* the store after a function of @/db/database has run: the get functions
\* read; updateSettings(newSettings) writes the Settings row
\* (the exam date, or the onboarding flag when arg carries that key);
\* resetDatabase leaves the store as a first launch finds it
StoreAfter(fn, arg, s) ==
    CASE fn = "updateSettings" ->
            IF "onboarding_complete" \in DOMAIN arg
            THEN [s EXCEPT !.onboarding_complete = arg.onboarding_complete,
                           !.rev = @ + 1]
            ELSE [s EXCEPT !.exam_date = arg, !.rev = @ + 1]
      [] fn = "seedDatabase" -> [s EXCEPT !.seeded = TRUE]
      [] fn = "resetDatabase" ->
            [s EXCEPT !.exam_date = NoExamDate, !.onboarding_complete = 0,
                      !.seeded = FALSE, !.rev = @ + 1]
      [] OTHER -> s

\* the cells after the statements that follow the await of fn in call k
\* (kind is the operation, day the local day the store's query read)
Publish(fn, kind, k, day, s, cells) ==
    CASE fn = "getSettings" ->
            [cells EXCEPT
               !.settings = [exam_date |-> s.exam_date,
                             onboarding_complete |-> s.onboarding_complete,
                             rev |-> s.rev, by |-> k],
               !.isInitialized =
                  IF kind = "update" THEN @ ELSE s.onboarding_complete = 1]
      [] fn = "resetDatabase" ->
            \* initializeApp begins: setIsLoading(true)
            [cells EXCEPT !.isLoading = TRUE]
      [] fn = "getSubjects" ->
            [cells EXCEPT !.subjects = [rev |-> s.rev, by |-> k]]
      [] fn = "getSubjectProgress" ->
            [cells EXCEPT !.subjectProgress = [rev |-> s.rev, by |-> k]]
      [] fn = "getRecommendedLessons" ->
            [cells EXCEPT !.recommendedLessons = [rev |-> s.rev, by |-> k]]
      [] fn = "getTodayStudyMinutes" ->
            [cells EXCEPT !.todayMinutes = [rev |-> s.rev, day |-> day, by |-> k]]
      [] OTHER -> cells

\* a faulty variant of the definition below: isLoading is left as it is
Finally_Skipped(kind, cells) == cells

\* finally { setIsLoading(false) } of initializeApp and of resetAppData
Finally(kind, cells) ==
    IF kind \in {"init", "reset"} THEN [cells EXCEPT !.isLoading = FALSE]
    ELSE cells

\* how the promise of an operation settles when one of its awaits rejected:
\* catch (error) { console.error(...) }
CatchOutcome == "fulfilled"

\* useState initial values; the mount effect has called initializeApp, whose
\* setIsLoading(true) leaves isLoading as it is
AppInitCells ==
    [settings |-> [exam_date |-> NoExamDate, onboarding_complete |-> NULL,
                   rev |-> 0, by |-> 0],
     subjects |-> [rev |-> 0, by |-> 0],
     subjectProgress |-> [rev |-> 0, by |-> 0],
     recommendedLessons |-> [rev |-> 0, by |-> 0],
     todayMinutes |-> [rev |-> 0, day |-> 0, by |-> 0],
     isLoading |-> TRUE,
     isInitialized |-> FALSE]

\* useMemo(() => ..., [settings?.exam_date]): deps and value of the last
\* evaluation; today is the local day that evaluation read
Memo(exam_date, day) ==
    [deps |-> exam_date, today |-> day,
     value |-> daysUntilExam(AppZone, Noon(day), exam_date)]

\* the memo at a render of cells on local day day
AppMemo(memo, cells, day) ==
    IF memo.deps = cells.settings.exam_date THEN memo
    ELSE Memo(cells.settings.exam_date, day)

\* a call of an operation: pc is the index of the function it awaits; start,
\* failed and outcome are not program state
NewCall(kind, arg, day) ==
    [kind |-> kind, arg |-> arg, pc |-> 1, start |-> day, failed |-> FALSE,
     outcome |-> "pending"]

App_running(k) == k \in 1..Len(refreshes) /\ refreshes[k].outcome = "pending"

\* a call that has settled; pc stays at the function that rejected
Settled(c, failed, outcome) ==
    [kind |-> c.kind, arg |-> NoExamDate, pc |-> IF failed THEN c.pc ELSE 0,
     start |-> c.start, failed |-> failed, outcome |-> outcome]

\* the render of cells on local day day
App_commit(cells, day) ==
    [cells |-> cells, memo |-> AppMemo(app.memo, cells, day)]

\* a write to the store by another screen (saveAttempt, markLessonComplete)
Store_write ==
    /\ store.rev < MaxRevision
    /\ store' = [store EXCEPT !.rev = @ + 1]
    /\ UNCHANGED <<clock, app, refreshes>>
    /\ UNCHANGED <<attempts, quizVars, mockVars, days, detail, rec, qa, extract, load>>

\* the exam dates the learner sets
AppExamDates == {NoExamDate} \cup [form : {"local"}, day : 1..MaxMidnights + 1]

\* the dashboard gains focus or is pulled down: refreshData()
App_refreshData ==
    /\ Len(refreshes) < MaxAppCalls
    /\ refreshes' = Append(refreshes, NewCall("refresh", NoExamDate, clock))
    /\ UNCHANGED <<store, clock, app>>
    /\ UNCHANGED <<attempts, quizVars, mockVars, days, detail, rec, qa, extract, load>>

\* the settings screen: updateAppSettings({exam_date})
App_updateAppSettings ==
    /\ Len(refreshes) < MaxAppCalls
    /\ \E d \in AppExamDates :
          refreshes' = Append(refreshes, NewCall("update", d, clock))
    /\ UNCHANGED <<store, clock, app>>
    /\ UNCHANGED <<attempts, quizVars, mockVars, days, detail, rec, qa, extract, load>>

\* the function call k awaits answers; the call runs to its next await or end
App_resumes(k) ==
    /\ App_running(k)
    /\ LET c == refreshes[k]
           fn == CallsOf(c.kind)[c.pc]
           last == c.pc = Len(CallsOf(c.kind))
           s == StoreAfter(fn, c.arg, store)
           cells == Publish(fn, c.kind, k, clock, s, app.cells)
       IN  /\ store' = s
           /\ app' = App_commit(IF last THEN Finally(c.kind, cells) ELSE cells,
                                clock)
           /\ refreshes' = [refreshes EXCEPT
                              ![k] = IF last THEN Settled(c, FALSE, "fulfilled")
                                     ELSE [c EXCEPT !.pc = @ + 1]]
    /\ UNCHANGED clock
    /\ UNCHANGED <<attempts, quizVars, mockVars, days, detail, rec, qa, extract, load>>

\* the function call k awaits rejects: catch, finally
App_fails(k) ==
    /\ App_running(k)
    /\ LET c == refreshes[k]
       IN  /\ app' = App_commit(Finally(c.kind, app.cells), clock)
           /\ refreshes' = [refreshes EXCEPT
                              ![k] = Settled(c, TRUE, CatchOutcome)]
    /\ UNCHANGED <<store, clock>>
    /\ UNCHANGED <<attempts, quizVars, mockVars, days, detail, rec, qa, extract, load>>

\* local midnight passes
App_midnight ==
    /\ clock < MaxMidnights
    /\ clock' = clock + 1
    /\ UNCHANGED <<store, app, refreshes>>
    /\ UNCHANGED <<attempts, quizVars, mockVars, days, detail, rec, qa, extract, load>>

\* the onboarding screen: updateAppSettings({onboarding_complete})
App_completeOnboarding ==
    /\ Len(refreshes) < MaxSettingsCalls
    /\ \E v \in {0, 1} :
          refreshes' = Append(refreshes,
                              NewCall("onboard", [onboarding_complete |-> v],
                                      clock))
    /\ UNCHANGED <<store, clock, app>>
    /\ UNCHANGED <<attempts, quizVars, mockVars, days, detail, rec, qa, extract, load>>

\* the settings screen: resetAppData(), up to its first await
App_resetAppData ==
    /\ Len(refreshes) < MaxAppCalls
    /\ refreshes' = Append(refreshes, NewCall("reset", NoExamDate, clock))
    /\ app' = App_commit([app.cells EXCEPT !.isLoading = TRUE], clock)
    /\ UNCHANGED <<store, clock>>
    /\ UNCHANGED <<attempts, quizVars, mockVars, days, detail, rec, qa, extract, load>>

AppNext ==
    \/ App_refreshData
    \/ App_updateAppSettings
    \/ \E k \in 1..MaxAppCalls : App_resumes(k)
    \/ \E k \in 1..MaxAppCalls : App_fails(k)
    \/ App_midnight
    \/ Store_write

\* the operations of the context, without the clock and the other screens
AppSettingsNext ==
    \/ App_refreshData
    \/ App_updateAppSettings
    \/ App_completeOnboarding
    \/ App_resetAppData
    \/ \E k \in 1..MaxSettingsCalls : App_resumes(k)
    \/ \E k \in 1..MaxSettingsCalls : App_fails(k)

\* what loads: the initialization and the reset of AppProvider, and the
\* loadExercises of the two session screens with their renders
LoadingNext ==
    \/ App_resetAppData
    \/ \E k \in 1..MaxAppCalls : App_resumes(k)
    \/ \E k \in 1..MaxAppCalls : App_fails(k)
    \/ Quiz_loadExercises
    \/ Quiz_loadExercisesFails
    \/ Quiz_render
    \/ Quiz_focus
    \/ Quiz_back
    \/ Mock_loadExercises
    \/ Mock_loadExercisesFails
    \/ Mock_render
    \/ Mock_back

\* the other parts' specifications leave AppProvider as constructed
AppIdle ==
    /\ store = [exam_date |-> NoExamDate, onboarding_complete |-> 1, rev |-> 0,
                seeded |-> FALSE]
    /\ clock = 0
    /\ app = [cells |-> AppInitCells, memo |-> Memo(NoExamDate, 0)]
    /\ refreshes = <<NewCall("init", NoExamDate, 0)>>

----------------------------------------------------------------------------
(* SubjectDetailScreen (src/unnamed/part_002): the subject and lessons      *)
(* cells, loadData, and the progress the screen computes on every render.   *)
(* A number that comes out of a division is kept as the fraction num/den;   *)
(* den = 0 is what JavaScript gives for a division by zero (NaN for 0/0,    *)
(* Infinity otherwise).                                                      *)

Number(n) == [num |-> n, den |-> 1]

\* a / b
Divide(a, b) == [num |-> a, den |-> b]

\* q * k
Times(q, k) == [num |-> q.num * k, den |-> q.den]

\* lessons.filter((l) => l.is_completed === 1).length
RECURSIVE completedLessons(_)
completedLessons(lessons) ==
    IF lessons = <<>> THEN 0
    ELSE (IF Head(lessons).is_completed = 1 THEN 1 ELSE 0)
         + completedLessons(Tail(lessons))

\* a faulty variant of the definition below: the quotient is taken whatever
\* the number of lessons
progress_Unguarded(lessons) ==
    Times(Divide(completedLessons(lessons), Len(lessons)), 100)

\* the progress handed to the ProgressRing
progress(lessons) ==
    IF Len(lessons) > 0
    THEN Times(Divide(completedLessons(lessons), Len(lessons)), 100)
    ELSE Number(0)

\* the lists getLessons can answer with
LessonLists ==
    UNION {[1..n -> [is_completed : {0, 1}]] : n \in 0..MaxLessons}

\* the screen as constructed, its focus effect having called loadData
DetailIdle == [subject |-> NULL, lessons |-> <<>>, isLoading |-> TRUE,
               progress |-> progress(<<>>), pc |-> 1, loads |-> 1]

\* the render that follows the updates of a step
Detail_commit(d) == [d EXCEPT !.progress = progress(d.lessons)]

\* the screen gains focus again: loadData up to its first await
Detail_focus ==
    /\ detail.pc = 0
    /\ detail.loads < MaxLoads
    /\ detail' = Detail_commit([detail EXCEPT !.isLoading = TRUE, !.pc = 1,
                                              !.loads = @ + 1])
    /\ UNCHANGED <<attempts, quizVars, mockVars, days, rec, qa, appVars, extract, load>>

\* getSubjects answers: the subject of the route is among them or not
Detail_getSubjectsResumes ==
    /\ detail.pc = 1
    /\ \E foundSubject \in {NULL, 1} :
          detail' = Detail_commit([detail EXCEPT !.subject = foundSubject,
                                                 !.pc = 2])
    /\ UNCHANGED <<attempts, quizVars, mockVars, days, rec, qa, appVars, extract, load>>

\* getLessons answers; loadData ends
Detail_getLessonsResumes ==
    /\ detail.pc = 2
    /\ \E lessonsList \in LessonLists :
          detail' = Detail_commit([detail EXCEPT !.lessons = lessonsList,
                                                 !.isLoading = FALSE,
                                                 !.pc = 0])
    /\ UNCHANGED <<attempts, quizVars, mockVars, days, rec, qa, appVars, extract, load>>

\* the awaited query rejects: catch, finally
Detail_fails ==
    /\ detail.pc \in {1, 2}
    /\ detail' = Detail_commit([detail EXCEPT !.isLoading = FALSE, !.pc = 0])
    /\ UNCHANGED <<attempts, quizVars, mockVars, days, rec, qa, appVars, extract, load>>

DetailNext ==
    \/ Detail_focus
    \/ Detail_getSubjectsResumes
    \/ Detail_getLessonsResumes
    \/ Detail_fails

----------------------------------------------------------------------------
(* getRecommendedLessons (@/db/database), which refreshData calls with the  *)
(* count 3 (src/unnamed/part_001:92): the Lesson and Exercise tables, the   *)
(* Attempt log, and the list the function returns.  The Lesson table is in  *)
(* display order; the log is oldest first.                                   *)

\* the count refreshData and initializeApp ask for
RECOMMENDED_COUNT == 3

\* the counts the function is called with
Limits == {-1, 0, 1, 2, RECOMMENDED_COUNT}

\* the tables followed: lessons in display order (lesson ids), and for each
\* exercise id the lesson it belongs to
RecTables ==
    { [lessons |-> <<3, 1, 4, 2>>, lesson_id |-> <<3, 3, 4, 2>>],
      [lessons |-> <<1, 2>>,       lesson_id |-> <<1, 1, 1, 1>>] }

ExercisesOf(t, l) == {e \in DOMAIN t.lesson_id : t.lesson_id[e] = l}

\* the index in the log of the most recent attempt at exercise e, 0 if none
LatestAttempt(log, e) ==
    LET rows == {i \in DOMAIN log : log[i].exercise_id = e}
    IN  IF rows = {} THEN 0
        ELSE CHOOSE i \in rows : \A j \in rows : j <= i

\* a faulty variant of the definition below: any incorrect attempt counts,
\* superseded or not
IsWeak_AnyAttempt(log, e) ==
    \/ LatestAttempt(log, e) = 0
    \/ \E i \in DOMAIN log : log[i].exercise_id = e /\ log[i].is_correct = 0

\* exercise e has no attempt, or its most recent attempt is incorrect
IsWeak(log, e) ==
    \/ LatestAttempt(log, e) = 0
    \/ log[LatestAttempt(log, e)].is_correct = 0

\* the weakness score of a lesson that has exercises
weaknessScore(t, log, l) ==
    Divide(Cardinality({e \in ExercisesOf(t, l) : IsWeak(log, e)}),
           Cardinality(ExercisesOf(t, l)))

\* p > q, for fractions with positive denominators
Greater(p, q) == p.num * q.den > q.num * p.den

\* the lessons that have exercises, scored, in display order
RECURSIVE Scored(_, _, _)
Scored(t, log, lessons) ==
    IF lessons = <<>> THEN <<>>
    ELSE (IF ExercisesOf(t, Head(lessons)) = {} THEN <<>>
          ELSE <<[lesson_id |-> Head(lessons),
                  score |-> weaknessScore(t, log, Head(lessons))]>>)
         \o Scored(t, log, Tail(lessons))

\* the scored lessons left when those with a perfect record are excluded
RECURSIVE Candidates(_, _)
Candidates(scored, excludePerfect) ==
    IF scored = <<>> THEN <<>>
    ELSE (IF excludePerfect /\ Head(scored).score.num = 0 THEN <<>>
          ELSE <<Head(scored)>>)
         \o Candidates(Tail(scored), excludePerfect)

\* x put in front of the first entry of a sorted list whose score is not greater
RECURSIVE InsertByScore(_, _)
InsertByScore(x, sorted) ==
    IF sorted = <<>> THEN <<x>>
    ELSE IF Greater(Head(sorted).score, x.score)
         THEN <<Head(sorted)>> \o InsertByScore(x, Tail(sorted))
         ELSE <<x>> \o sorted

\* a faulty variant of the definition below: the list is left in display order
SortByScore_Unsorted(list) == list

\* by score descending, stable
RECURSIVE SortByScore(_)
SortByScore(list) ==
    IF list = <<>> THEN <<>>
    ELSE InsertByScore(Head(list), SortByScore(Tail(list)))

\* a faulty variant of the definition below: the count is not applied
FirstN_All(list, n) == list

\* the first n entries of a list
FirstN(list, n) ==
    IF n <= 0 THEN <<>>
    ELSE IF n >= Len(list) THEN list
    ELSE SubSeq(list, 1, n)

\* what the function computes: the scored lessons and the list returned
getRecommendedLessons(t, log, excludePerfect, limit) ==
    LET scored == Scored(t, log, t.lessons)
    IN  [limit |-> limit,
         scored |-> scored,
         list |-> FirstN(SortByScore(Candidates(scored, excludePerfect)),
                         limit),
         called |-> TRUE]

\* the function not called since the log last grew
NoResult == [limit |-> 0, scored |-> <<>>, list |-> <<>>, called |-> FALSE]

RecIdle == [tables |-> CHOOSE t \in RecTables : Len(t.lessons) = 2,
            excludePerfect |-> FALSE, attempts |-> <<>>, result |-> NoResult]

\* an answer is logged for an exercise
Rec_saveAttempt ==
    /\ Len(rec.attempts) < MaxLog
    /\ \E e \in DOMAIN rec.tables.lesson_id, c \in {0, 1} :
          rec' = [rec EXCEPT
                    !.attempts = Append(@, [exercise_id |-> e, is_correct |-> c]),
                    !.result = NoResult]
    /\ UNCHANGED <<attempts, quizVars, mockVars, days, detail, qa, appVars, extract, load>>

\* the function is called
Rec_getRecommendedLessons ==
    /\ \E limit \in Limits :
          rec' = [rec EXCEPT
                    !.result = getRecommendedLessons(rec.tables, rec.attempts,
                                                     rec.excludePerfect, limit)]
    /\ UNCHANGED <<attempts, quizVars, mockVars, days, detail, qa, appVars, extract, load>>

RecNext ==
    \/ Rec_saveAttempt
    \/ Rec_getRecommendedLessons

----------------------------------------------------------------------------
(* POST /api/pdf/qa (src/unnamed/part_000): the body of the request, the    *)
(* environment of the server, the call of the language-model API and the    *)
(* response sent.  A field or variable that is not there is undefined.      *)

undefined == "undefined"

\* !v for a string or undefined
Not(v) == v \in {undefined, ""}

DEFAULT_MODEL == "gpt-4o-mini-2024-07-18"

\* process.env[name], throwing when it is not set
requireEnv(env, name) ==
    IF Not(env[name]) THEN [threw |-> TRUE, v |-> undefined]
    ELSE [threw |-> FALSE, v |-> env[name]]

NoResponse == [status |-> 0, message |-> undefined, answer |-> undefined]

\* res.status(status).json({ message })
Message(status, message) ==
    [status |-> status, message |-> message, answer |-> undefined]

\* a faulty variant of the definition below: an output_text that is not there
\* is an upstream failure
QaAnswer_Checked(output_text) ==
    IF Not(output_text) THEN Message(500, "QA failed")
    ELSE [status |-> 200, message |-> undefined, answer |-> output_text]

\* answer = response.output_text ?? ""; res.status(200).json({ answer })
QaAnswer(output_text) ==
    [status |-> 200, message |-> undefined,
     answer |-> IF output_text = undefined THEN "" ELSE output_text]

NoCall == [model |-> undefined, system |-> undefined]

\* the requests and environments followed
QaBodies ==
    [question : {undefined, "", "q"}, contextText : {undefined, "", "text"},
     answerLang : {undefined, "ar", "fr", "de"}]

QaEnvs ==
    [OPENAI_API_KEY : {undefined, "key"}, OPENAI_MODEL : {undefined, "m"}]

\* what the API's response can hold as output_text
OutputTexts == {undefined, "", "answer"}

QaIdle == [body |-> [question |-> undefined, contextText |-> undefined,
                     answerLang |-> undefined],
           env |-> [OPENAI_API_KEY |-> undefined, OPENAI_MODEL |-> undefined],
           pc |-> "received", call |-> NoCall, res |-> NoResponse]

\* the handler up to the await of client.responses.create
Qa_handle ==
    /\ qa.pc = "received"
    /\ LET body == qa.body
           apiKey == requireEnv(qa.env, "OPENAI_API_KEY")
           model == IF Not(qa.env.OPENAI_MODEL) THEN DEFAULT_MODEL
                    ELSE qa.env.OPENAI_MODEL
           system == IF body.answerLang = "fr" THEN "fr" ELSE "ar"
       IN  IF Not(body.question) \/ Not(body.contextText)
           THEN qa' = [qa EXCEPT
                         !.pc = "done",
                         !.res = Message(400, "Missing question or contextText")]
           ELSE IF body.answerLang # "ar" /\ body.answerLang # "fr"
           THEN qa' = [qa EXCEPT
                         !.pc = "done",
                         !.res = Message(400, "answerLang must be 'ar' or 'fr'")]
           ELSE IF apiKey.threw
           THEN qa' = [qa EXCEPT !.pc = "done",
                                 !.res = Message(500, "QA failed")]
           ELSE qa' = [qa EXCEPT !.pc = "awaiting",
                                 !.call = [model |-> model, system |-> system]]
    /\ UNCHANGED <<attempts, quizVars, mockVars, days, detail, rec, appVars, extract, load>>

\* the API answers
Qa_createResolves ==
    /\ qa.pc = "awaiting"
    /\ \E output_text \in OutputTexts :
          qa' = [qa EXCEPT !.pc = "done", !.res = QaAnswer(output_text)]
    /\ UNCHANGED <<attempts, quizVars, mockVars, days, detail, rec, appVars, extract, load>>

\* the call of the API fails: catch
Qa_createRejects ==
    /\ qa.pc = "awaiting"
    /\ qa' = [qa EXCEPT !.pc = "failed", !.res = Message(500, "QA failed")]
    /\ UNCHANGED <<attempts, quizVars, mockVars, days, detail, rec, appVars, extract, load>>

QaNext ==
    \/ Qa_handle
    \/ Qa_createResolves
    \/ Qa_createRejects


----------------------------------------------------------------------------
(* POST /api/pdf/extract (src/unnamed/part_000): the uploaded file, the     *)
(* answer of the PDF parser and the responses sent.  A text is a sequence   *)
(* of characters, of which the model has a letter, the space, the tab, the  *)
(* line feed and the carriage return.                                        *)

Chars == {"a", "sp", "tab", "lf", "cr"}

Whitespace == {"sp", "tab", "lf", "cr"}

Texts == UNION {[1..n -> Chars] : n \in 0..MaxTextLen}

\* .replace(/\r/g, "")
RECURSIVE RemoveCr(_)
RemoveCr(t) ==
    IF t = <<>> THEN <<>>
    ELSE (IF Head(t) = "cr" THEN <<>> ELSE <<Head(t)>>) \o RemoveCr(Tail(t))

\* .replace(/[ \t]+\n/g, "\n")
RECURSIVE StripBeforeLf(_)
StripBeforeLf(t) ==
    IF t = <<>> THEN <<>>
    ELSE LET rest == StripBeforeLf(Tail(t))
         IN  IF Head(t) \in {"sp", "tab"} /\ rest # <<>> /\ Head(rest) = "lf"
             THEN rest
             ELSE <<Head(t)>> \o rest

\* .replace(/\n{3,}/g, "\n\n")
RECURSIVE CollapseLf(_)
CollapseLf(t) ==
    IF t = <<>> THEN <<>>
    ELSE IF Len(t) >= 3 /\ t[1] = "lf" /\ t[2] = "lf" /\ t[3] = "lf"
         THEN CollapseLf(Tail(t))
         ELSE <<Head(t)>> \o CollapseLf(Tail(t))

RECURSIVE TrimStart(_)
TrimStart(t) ==
    IF t # <<>> /\ Head(t) \in Whitespace THEN TrimStart(Tail(t)) ELSE t

RECURSIVE TrimEnd(_)
TrimEnd(t) ==
    IF t # <<>> /\ t[Len(t)] \in Whitespace
    THEN TrimEnd(SubSeq(t, 1, Len(t) - 1))
    ELSE t

\* .trim()
Trim(t) == TrimEnd(TrimStart(t))

\* a faulty variant of the definition below: the text is not trimmed
normalizeText_NoTrim(input) == CollapseLf(StripBeforeLf(RemoveCr(input)))

normalizeText(input) == Trim(CollapseLf(StripBeforeLf(RemoveCr(input))))

\* file.originalname.toLowerCase()
toLowerCase(name) == IF name = "A.PDF" THEN "a.pdf" ELSE name

\* .endsWith(".pdf"), for the names followed
endsWithPdf(name) == name = "a.pdf"

\* the uploads followed: no file, or a file with its declared type and name
NoFile == [present |-> FALSE, mimetype |-> undefined, originalname |-> undefined]

Uploads ==
    {NoFile} \cup [present : {TRUE},
                   mimetype : {"application/pdf", "image/png"},
                   originalname : {"a.pdf", "A.PDF", "a.png"}]

mimeOk(file) ==
    \/ file.mimetype = "application/pdf"
    \/ endsWithPdf(toLowerCase(file.originalname))

\* what the parser can resolve with: text is there or not, numpages too
NoData == [hasText |-> FALSE, text |-> <<>>, numpages |-> NULL]

ParserData == [hasText : BOOLEAN, text : Texts, numpages : {NULL, 1}]

\* res.status(status).json(...): the response and the count of responses
ExtractSends(x, status, message, filename, pages, text) ==
    [x EXCEPT !.pc = "done", !.sent = @ + 1,
              !.res = [status |-> status, message |-> message,
                       filename |-> filename, pages |-> pages, text |-> text]]

NoExtractResponse ==
    [status |-> 0, message |-> undefined, filename |-> undefined,
     pages |-> NULL, text |-> <<>>]

ExtractIdle == [file |-> NoFile, pc |-> "received", parses |-> 0, sent |-> 0,
                failed |-> FALSE, data |-> NoData, res |-> NoExtractResponse]

\* the handler up to the await of the parser
Extract_handle ==
    /\ extract.pc = "received"
    /\ extract' =
          IF ~extract.file.present
          THEN ExtractSends(extract, 400, "Missing PDF file (field: file)",
                            undefined, NULL, <<>>)
          ELSE IF ~mimeOk(extract.file)
          THEN ExtractSends(extract, 400, "File is not a PDF",
                            undefined, NULL, <<>>)
          ELSE [extract EXCEPT !.pc = "awaiting", !.parses = @ + 1]
    /\ UNCHANGED <<attempts, quizVars, mockVars, days, detail, rec, qa, load,
                   appVars>>

\* the parser answers
Extract_parseResolves ==
    /\ extract.pc = "awaiting"
    /\ \E data \in ParserData :
          LET text == normalizeText(IF data.hasText THEN data.text ELSE <<>>)
              x == [extract EXCEPT !.data = data]
          IN  extract' =
                 IF text = <<>>
                 THEN ExtractSends(x, 422, "No extractable text found in this PDF (maybe scanned images).",
                                   undefined, NULL, <<>>)
                 ELSE ExtractSends(x, 200, undefined,
                                   extract.file.originalname, data.numpages, text)
    /\ UNCHANGED <<attempts, quizVars, mockVars, days, detail, rec, qa, load,
                   appVars>>

\* the parser throws: catch
Extract_parseRejects ==
    /\ extract.pc = "awaiting"
    /\ extract' = ExtractSends([extract EXCEPT !.failed = TRUE], 500,
                               "PDF extraction failed", undefined, NULL, <<>>)
    /\ UNCHANGED <<attempts, quizVars, mockVars, days, detail, rec, qa, load,
                   appVars>>

ExtractNext ==
    \/ Extract_handle
    \/ Extract_parseResolves
    \/ Extract_parseRejects

----------------------------------------------------------------------------
(* loadExercises of QuizScreen (src/app/quiz.tsx) as a function of the      *)
(* route's params and of the Exercise table: the query, the filter on the   *)
(* difficulty, the shuffle and the slice.  The order of a list is not       *)
(* followed: a list is kept in the order of the exercise ids, and the       *)
(* shuffle shows in which exercises the slice keeps.                         *)

\* what parseInt gives for a string that does not start with a number
NaN == -2

\* parseInt(str, 10), for the strings followed
parseInt(str) ==
    CASE str = "1" -> 1
      [] str = "2" -> 2
      [] OTHER -> NaN

\* the params of the route
QuizParams ==
    [lessonId : {undefined, "1", "2", "x"}, subjectId : {undefined, "2"},
     difficulty : {undefined, "1", "x"}]

\* the Exercise tables followed: the exercises 1..split belong to lesson 1
\* (of subject 1), the others to lesson 2 (of subject 2)
QuizTables == [split : 0..MaxStoreExercises]

ExerciseRow(t, e) ==
    [id |-> e, lesson_id |-> IF e <= t.split THEN 1 ELSE 2,
     subject_id |-> IF e <= t.split THEN 1 ELSE 2,
     difficulty |-> 1 + (e % 2)]

ExerciseRows(t) == {ExerciseRow(t, e) : e \in 1..MaxStoreExercises}

\* getExercises(lessonId): the exercises of the lesson
getExercises(t, lessonId) ==
    {row \in ExerciseRows(t) : row.lesson_id = lessonId}

\* the sets of n rows of a pool, all of them when it holds fewer
Draws(pool, n) ==
    {S \in SUBSET pool : Cardinality(S) = Min(n, Cardinality(pool))}

\* getRandomExercises(limit, subjectId): the lists it can return
Quiz_getRandomExercises(t, limit, subjectId) ==
    Draws({row \in ExerciseRows(t) :
              subjectId # NULL => row.subject_id = subjectId}, limit)

\* exercisesList.filter((e) => e.difficulty === diff)
Quiz_filterDifficulty(list, diff) == {row \in list : row.difficulty = diff}

\* a faulty variant of the definition below: the whole list is kept
Quiz_slice_All(list) == {list}

\* exercisesList.sort(() => Math.random() - 0.5).slice(0, 10): the lists
\* it can leave
Quiz_slice(list) == Draws(list, QUIZ_QUESTIONS)

\* a set of rows as a list
RECURSIVE RowsAsList(_)
RowsAsList(rows) ==
    IF rows = {} THEN <<>>
    ELSE LET first == CHOOSE row \in rows : \A r \in rows : row.id <= r.id
         IN  <<first>> \o RowsAsList(rows \ {first})

\* the lists the store can answer the query of loadExercises with
Quiz_queried(params, t) ==
    IF ~Not(params.lessonId)
    THEN {getExercises(t, parseInt(params.lessonId))}
    ELSE Quiz_getRandomExercises(t, QUIZ_QUESTIONS,
                                 IF ~Not(params.subjectId)
                                 THEN parseInt(params.subjectId) ELSE NULL)

\* the lists loadExercises can pass to setExercises, the query having
\* answered with exercisesList
Quiz_shuffled(params, exercisesList) ==
    Quiz_slice(IF ~Not(params.difficulty)
               THEN Quiz_filterDifficulty(exercisesList,
                                          parseInt(params.difficulty))
               ELSE exercisesList)

LoadIdle == [params |-> [lessonId |-> undefined, subjectId |-> undefined,
                         difficulty |-> undefined],
             table |-> [split |-> 0], pc |-> "awaiting", exercises |-> <<>>]

\* the query answers; loadExercises runs to its end
Load_resumes ==
    /\ load.pc = "awaiting"
    /\ \E exercisesList \in Quiz_queried(load.params, load.table) :
       \E shuffled \in Quiz_shuffled(load.params, exercisesList) :
          load' = [load EXCEPT !.pc = "done",
                               !.exercises = RowsAsList(shuffled)]
    /\ UNCHANGED <<attempts, quizVars, mockVars, days, detail, rec, qa, extract,
                   appVars>>

\* the query rejects: catch, finally
Load_fails ==
    /\ load.pc = "awaiting"
    /\ load' = [load EXCEPT !.pc = "failed"]
    /\ UNCHANGED <<attempts, quizVars, mockVars, days, detail, rec, qa, extract,
                   appVars>>

LoadNext ==
    \/ Load_resumes
    \/ Load_fails

(* The state after the two session screens are constructed and their focus
   effects have called loadExercises. *)
SessionsInit ==
    /\ attempts = <<>>
    /\ quiz = QuizInitState
    /\ quizView = QuizInitState
    /\ quizLoads = 1
    /\ quizMounted = TRUE
    /\ quizSession = 1
    /\ quizPending = 0
    /\ mock = MockInitState
    /\ mockView = MockInitState
    /\ mockLoads = 1
    /\ mockMounted = TRUE
    /\ timer = TimerOff
    /\ finishes = <<>>

Init ==
    /\ SessionsInit
    /\ extract = ExtractIdle
    /\ load = LoadIdle
    /\ days = DaysIdle
    /\ detail = DetailIdle
    /\ rec = RecIdle
    /\ qa = QaIdle
    /\ AppIdle

\* daysUntilExam, over the zones, clock readings and exam dates of the bounds
DaysInit ==
    /\ SessionsInit
    /\ extract = ExtractIdle
    /\ load = LoadIdle
    /\ days \in [zone : Zones,
                 now : {HOURS_PER_DAY * d + h : d \in 0..MaxDay, h \in ClockHours},
                 exam_date : ExamDates,
                 result : {NULL}]
    /\ detail = DetailIdle
    /\ rec = RecIdle
    /\ qa = QaIdle
    /\ AppIdle

DaysNext ==
    \/ Days_compute

SpecDays == DaysInit /\ [][DaysNext]_vars

\* AppProvider from its mount, the store holding an exam date or none
AppInit ==
    /\ SessionsInit
    /\ extract = ExtractIdle
    /\ load = LoadIdle
    /\ days = DaysIdle
    /\ detail = DetailIdle
    /\ rec = RecIdle
    /\ qa = QaIdle
    /\ \E d \in AppExamDates :
          store = [exam_date |-> d, onboarding_complete |-> 1, rev |-> 0,
                   seeded |-> FALSE]
    /\ clock = 0
    /\ app = [cells |-> AppInitCells, memo |-> Memo(NoExamDate, 0)]
    /\ refreshes = <<NewCall("init", NoExamDate, 0)>>

SpecApp == AppInit /\ [][AppNext]_vars

\* AppProvider from its mount, the onboarding done or not
AppSettingsInit ==
    /\ SessionsInit
    /\ extract = ExtractIdle
    /\ load = LoadIdle
    /\ days = DaysIdle
    /\ detail = DetailIdle
    /\ rec = RecIdle
    /\ qa = QaIdle
    /\ \E o \in {0, 1} :
          store = [exam_date |-> NoExamDate, onboarding_complete |-> o,
                   rev |-> 0, seeded |-> FALSE]
    /\ clock = 0
    /\ app = [cells |-> AppInitCells, memo |-> Memo(NoExamDate, 0)]
    /\ refreshes = <<NewCall("init", NoExamDate, 0)>>

SpecAppSettings == AppSettingsInit /\ [][AppSettingsNext]_vars

SpecDetail == Init /\ [][DetailNext]_vars

\* getRecommendedLessons over the tables followed, with and without the
\* exclusion of the lessons with a perfect record
RecInit ==
    /\ SessionsInit
    /\ extract = ExtractIdle
    /\ load = LoadIdle
    /\ days = DaysIdle
    /\ detail = DetailIdle
    /\ rec \in [tables : RecTables, excludePerfect : BOOLEAN,
                attempts : {<<>>}, result : {NoResult}]
    /\ qa = QaIdle
    /\ AppIdle

SpecRec == RecInit /\ [][RecNext]_vars

\* one request to POST /api/pdf/qa, over the bodies and environments followed
QaInit ==
    /\ SessionsInit
    /\ extract = ExtractIdle
    /\ load = LoadIdle
    /\ days = DaysIdle
    /\ detail = DetailIdle
    /\ rec = RecIdle
    /\ qa \in [body : QaBodies, env : QaEnvs, pc : {"received"},
               call : {NoCall}, res : {NoResponse}]
    /\ AppIdle

SpecQa == QaInit /\ [][QaNext]_vars

\* one load of the quiz, over the params and tables followed
LoadInit ==
    /\ SessionsInit
    /\ extract = ExtractIdle
    /\ load \in [params : QuizParams, table : QuizTables, pc : {"awaiting"},
                 exercises : {<<>>}]
    /\ days = DaysIdle
    /\ detail = DetailIdle
    /\ rec = RecIdle
    /\ qa = QaIdle
    /\ AppIdle

\* one request to POST /api/pdf/extract, over the uploads followed
ExtractInit ==
    /\ SessionsInit
    /\ extract \in [file : Uploads, pc : {"received"}, parses : {0}, sent : {0},
                    failed : {FALSE}, data : {NoData},
                    res : {NoExtractResponse}]
    /\ load = LoadIdle
    /\ days = DaysIdle
    /\ detail = DetailIdle
    /\ rec = RecIdle
    /\ qa = QaIdle
    /\ AppIdle

SpecExtract == ExtractInit /\ [][ExtractNext]_vars

SpecLoad == LoadInit /\ [][LoadNext]_vars

SpecMock == Init /\ [][MockNext]_vars

\* The store answers every saveAttempt, so an awaiting handleFinish resumes, and
\* React renders the updates it holds.
SpecMockFair ==
    /\ SpecMock
    /\ WF_vars(Mock_render)
    /\ \A k \in 1..MaxFinishCalls : WF_vars(Mock_finishResumes(k))

\* AppProvider at its mount, and over it no session screen, or the quiz, or
\* the mock exam, whose focus effect has called loadExercises
LoadingInit ==
    /\ attempts = <<>>
    /\ quiz = QuizInitState
    /\ quizView = QuizInitState
    /\ quizSession = 1
    /\ quizPending = 0
    /\ mock = MockInitState
    /\ mockView = MockInitState
    /\ timer = TimerOff
    /\ finishes = <<>>
    /\ \E screen \in {"none", "quiz", "mock"} :
          /\ quizMounted = (screen = "quiz")
          /\ quizLoads = (IF screen = "quiz" THEN 1 ELSE 0)
          /\ mockMounted = (screen = "mock")
          /\ mockLoads = (IF screen = "mock" THEN 1 ELSE 0)
    /\ extract = ExtractIdle
    /\ load = LoadIdle
    /\ days = DaysIdle
    /\ detail = DetailIdle
    /\ rec = RecIdle
    /\ qa = QaIdle
    /\ AppIdle

\* The loads of the app and of the two session screens.  Every promise of
\* the store settles: an awaiting operation resumes or catches.
SpecLoading == LoadingInit /\ [][LoadingNext]_vars

SpecLoadingFair ==
    /\ SpecLoading
    /\ \A k \in 1..MaxAppCalls : WF_vars(App_resumes(k) \/ App_fails(k))
    /\ WF_vars(Quiz_loadExercises \/ Quiz_loadExercisesFails)
    /\ WF_vars(Mock_loadExercises \/ Mock_loadExercisesFails)

\* the quiz, each press rendered before the next event
SpecQuiz == Init /\ [][QuizNextSync]_vars

\* the quiz, each press rendered before the next event, the screen losing
\* and regaining focus while it is mounted
SpecQuizFocus == Init /\ [][QuizNextFocus]_vars

\* the quiz, its handlers called again before the screen has rendered
SpecQuizRapid == Init /\ [][QuizNextRapid]_vars

----------------------------------------------------------------------------
(* The Attempt log, as the claims read it. *)

\* the rows of the log for exercise e
RowsFor(e) == {i \in 1..Len(attempts) : attempts[i].exercise_id = e}

\* the rows written under tag t (a quiz session, a handleFinish call)
RowsTagged(t) == {i \in 1..Len(attempts) : attempts[i].tag = t}

\* the last handleFinish call, when this step made one
FinishCalled == Len(finishes') = Len(finishes) + 1

----------------------------------------------------------------------------
(* Claims. *)

\* C1: in a quiz session no exercise has more than one Attempt row, and the
\* exercise under review has one; this is to hold also when handleCheck is
\* called twice before the screen has rendered the first call's update.
C1_OneAttemptPerReviewedExercise ==
    /\ \A e \in ExerciseIds : \A sid \in 1..MaxSessions :
          Cardinality(RowsFor(e) \cap RowsTagged(sid)) <= 1
    /\ (quizMounted /\ quiz.showResult /\ Quiz_hasCurrentExercise(quiz))
          => Cardinality(RowsFor(Quiz_currentExercise(quiz))
                         \cap RowsTagged(quizSession)) = 1

\* C1, the case: handleCheck was called twice on one render
C1_TwoRapidChecks ==
    /\ quizMounted
    /\ quizPending = 2
    /\ ~quizView.showResult
    /\ quiz.showResult
    /\ Len(attempts) = 2

\* C2: a handleFinish call made when the session is already complete appends
\* no Attempt row and leaves the session state as it was (the clock aside,
\* which the timer's own updater sets).
C2_FinishAfterCompleteIsNoOp ==
    [][(mockMounted /\ mock.isComplete /\ FinishCalled)
          => (attempts' = attempts
              /\ [mock' EXCEPT !.timeLeft = mock.timeLeft] = mock)]_vars

\* C3: in a mock exam the log never holds two Attempt rows for one exercise.
C3_AtMostOneAttemptPerExercise ==
    \A e \in ExerciseIds : Cardinality(RowsFor(e)) <= 1

\* a handleFinish call k that returns in this step
FinishReturns(k) ==
    /\ k \in 1..Len(finishes')
    /\ finishes'[k].done
    /\ k \in 1..Len(finishes) => ~finishes[k].done

\* the call record of k before the step in which it returns
FinishRecord(k) ==
    IF k \in 1..Len(finishes) THEN finishes[k]
    ELSE Mock_newFinish(timer.exercises, timer.answers, "timer")

\* C4: when a handleFinish call made by the timer returns, the exercises it
\* wrote an Attempt for are exactly those that had an answer in the state at
\* the cutoff; stated for the cutoffs at which the screen showed every update.
C4_TimerFinishWritesCutoffAnswers ==
    [][\A k \in 1..MaxFinishCalls :
          (FinishReturns(k) /\ FinishRecord(k).by = "timer"
                            /\ FinishRecord(k).rendered)
             => {attempts'[i].exercise_id :
                    i \in {j \in 1..Len(attempts') : attempts'[j].tag = k}}
                = FinishRecord(k).cutoff]_vars

TimerActs ==
    \/ mock'.timeLeft < mock.timeLeft
    \/ FinishCalled /\ finishes'[Len(finishes')].by = "timer"

\* C6: once the session is complete or the screen has been left, no tick takes
\* the clock down and the timer makes no handleFinish call.
C6_TimerStoppedOnceCompleteOrLeft ==
    [][((mockMounted /\ mock.isComplete) \/ ~mockMounted) => ~TimerActs]_vars

\* the exercises of state s answered with their correct option
CorrectlyAnswered(s) ==
    {i \in 1..Len(s.exercises) :
        s.answers[i] # NULL /\ s.answers[i] = correct_index(s.exercises[i])}

\* C7: at Complete the score is the number of exercises whose chosen answer
\* is their correct option, an unanswered exercise adding nothing, and every
\* Attempt row is for an exercise that has an answer and carries an option.
C7_ScoreAndRowsAtComplete ==
    (mockMounted /\ mock.isComplete) =>
        /\ Mock_correctCount(mock) = Cardinality(CorrectlyAnswered(mock))
        /\ Mock_correctCount(mock)
              <= Cardinality({i \in 1..Len(mock.answers) : mock.answers[i] # NULL})
        /\ \A r \in 1..Len(attempts) :
              /\ attempts[r].selected_index # NULL
              /\ \E i \in 1..Len(mock.exercises) :
                    /\ mock.exercises[i] = attempts[r].exercise_id
                    /\ mock.answers[i] # NULL

\* C7, the case: Complete with one exercise answered correctly and the other
\* unanswered, the log holding the one row
C7_CompleteWithUnanswered ==
    /\ mockMounted
    /\ Mock_screen(mockView) = "complete"
    /\ Len(mock.exercises) = 2
    /\ Mock_correctCount(mock) = 1
    /\ \E i \in 1..2 : mock.answers[i] = NULL
    /\ Len(attempts) = 1

\* the state of the session state machine that the cells s stand for
QuizPhase(s) ==
    IF s.isLoading THEN <<"Loading">>
    ELSE IF Len(s.exercises) = 0 THEN <<"Empty">>
    ELSE IF s.isComplete THEN <<"Complete">>
    ELSE IF s.showResult THEN <<"Reviewing", s.currentIndex>>
    ELSE <<"Presenting", s.currentIndex>>

\* the moves of the session state machine between two states of one session
QuizMove(s, t) ==
    LET p == QuizPhase(s)
        q == QuizPhase(t)
    IN  \/ p = q
        \/ p = <<"Loading">> /\ q \in {<<"Presenting", 0>>, <<"Empty">>}
        \/ p[1] = "Presenting" /\ q = <<"Reviewing", p[2]>>
        \/ /\ p[1] = "Reviewing"
           /\ q = <<"Presenting", p[2] + 1>>
           /\ p[2] + 1 < Len(s.exercises)
        \/ /\ p[1] = "Reviewing"
           /\ q = <<"Complete">>
           /\ p[2] = Len(s.exercises) - 1

SelectedOptions(v) == {index \in Options : v.selectedIndex = index}

\* C9: while an exercise is presented every option can be selected, whatever
\* is selected already, and at most one option is selected; while it is under
\* review no step changes the selection.
C9_SelectionMutableThenFrozen ==
    /\ [](\A index \in Options :
            (Quiz_quizShown /\ ~quizView.showResult /\ quizView = quiz)
               => /\ Cardinality(SelectedOptions(quizView)) <= 1
                  /\ Quiz_selectOption(quizView, quiz, index).selectedIndex = index)
    /\ [][(quizMounted' /\ quiz.showResult /\ quiz'.showResult)
             => quiz'.selectedIndex = quiz.selectedIndex]_vars

\* C9, the case: an exercise under review with an option selected
C9_ReviewingWithSelection ==
    /\ Quiz_quizShown
    /\ quizView.showResult
    /\ quizView.selectedIndex # NULL
    /\ Len(attempts) = 1

\* C10: a step that writes to the log appends one row, made from a state with
\* an option selected: the row carries that option and the current exercise,
\* and its flag says whether the option is the exercise's correct one.  From a
\* state with no option selected no step writes or opens the review.
C10_CommitWritesSelection ==
    [][/\ attempts' # attempts =>
            /\ quiz.selectedIndex # NULL
            /\ Len(attempts') = Len(attempts) + 1
            /\ SubSeq(attempts', 1, Len(attempts)) = attempts
            /\ LET row == attempts'[Len(attempts')]
               IN  /\ row.selected_index = quiz.selectedIndex
                   /\ row.exercise_id = Quiz_currentExercise(quiz)
                   /\ row.is_correct
                        = (row.selected_index = correct_index(row.exercise_id))
       /\ (quiz.selectedIndex = NULL /\ quizMounted' /\ ~quiz.showResult)
            => (attempts' = attempts /\ ~quiz'.showResult)]_vars

\* C10, the case: the log holds a correct and an incorrect Attempt
C10_CorrectAndIncorrectRows ==
    /\ \E r \in 1..Len(attempts) : attempts[r].is_correct
    /\ \E r \in 1..Len(attempts) : ~attempts[r].is_correct
    /\ quizMounted

\* C11: the result is never negative; it is 0 when the exam date is absent
\* and, for an exam date given in local time, it is the number of calendar
\* days from the local day of the clock reading to the exam day, 0 when the
\* exam day is that day or before it.
C11_DaysUntilExamIsDayDifference ==
    days.result # NULL =>
        /\ days.result >= 0
        /\ days.exam_date = NoExamDate => days.result = 0
        /\ days.exam_date.form = "local" =>
              days.result
                = Max(0, days.exam_date.day - LocalDay(days.zone, days.now))

\* the fields of the view-model a refresh publishes
AppFields == {"settings", "subjectProgress", "recommendedLessons", "todayMinutes"}

\* call k is a refreshData call that ran to its end within local day d
RefreshedOn(k, d) ==
    /\ k \in 1..Len(refreshes)
    /\ refreshes[k].kind = "refresh"
    /\ refreshes[k].outcome = "fulfilled"
    /\ ~refreshes[k].failed
    /\ refreshes[k].start = d
    /\ app.cells.settings.by = k
    /\ app.cells.todayMinutes.by = k
    /\ app.cells.todayMinutes.day = d

\* C12: after a refresh that ran to its end within the present day, the
\* days-until-exam shown is the one counted from the day minutes-today was
\* read for, not one left over from an earlier day.
C12_FiguresOfOneToday ==
    \A k \in 1..MaxAppCalls :
        RefreshedOn(k, clock) =>
            app.memo.value
              = daysUntilExam(AppZone, Noon(app.cells.todayMinutes.day),
                              app.cells.settings.exam_date)

\* the read queries of a refresh
ReadQueries == {refreshData_calls[i] : i \in 1..Len(refreshData_calls)}

\* C13: a refresh or an initialization in which a read query of the store
\* failed settles as rejected, so that its caller learns of the failure.
C13_FailurePropagates ==
    \A k \in 1..Len(refreshes) :
        (/\ refreshes[k].kind \in {"refresh", "init"}
         /\ refreshes[k].failed
         /\ CallsOf(refreshes[k].kind)[refreshes[k].pc] \in ReadQueries)
            => refreshes[k].outcome = "rejected"

\* field f holds what a refreshData call read from the store, and field g
\* what an earlier call read from another revision of it
MixedFields(f, g) ==
    /\ app.cells[f].by \in 1..Len(refreshes)
    /\ refreshes[app.cells[f].by].kind = "refresh"
    /\ app.cells[g].by \in 1..(app.cells[f].by - 1)
    /\ app.cells[g].rev # app.cells[f].rev

\* C14: once the app has loaded, no rendered view-model has one field from a
\* refresh and another from before that refresh.
C14_RefreshPublishesAtOnce ==
    ~app.cells.isLoading => \A f, g \in AppFields : ~MixedFields(f, g)

\* C15: no step of a refreshData call changes the store.
C15_RefreshOnlyReads ==
    [][\A k \in 1..MaxAppCalls :
          (App_running(k) /\ refreshes[k].kind = "refresh"
                          /\ refreshes'[k] # refreshes[k])
             => store' = store]_vars

\* C15, the case: a refresh ran to its end on a store that holds an exam date
\* and was written to before
C15_RefreshCompleted ==
    \E k \in 1..Len(refreshes) :
        /\ refreshes[k].kind = "refresh"
        /\ refreshes[k].outcome = "fulfilled"
        /\ ~refreshes[k].failed
        /\ app.cells.todayMinutes.by = k
        /\ app.cells.settings.rev = 1
        /\ store.rev = 1
        /\ store.exam_date # NoExamDate

\* C16: the progress on the subject screen is (completed lessons / total
\* lessons) x 100, a number between 0 and 100; with no lessons it is 0 and
\* nothing is divided by zero.
C16_ProgressPercent ==
    LET total == Len(detail.lessons)
        completed == Cardinality({i \in 1..total :
                                     detail.lessons[i].is_completed = 1})
        p == detail.progress
    IN  /\ p.den > 0
        /\ p.num * total = completed * 100 * p.den
        /\ 0 <= p.num
        /\ p.num <= 100 * p.den
        /\ total = 0 => p.num = 0

\* a subject with three lessons, one of them completed, has been loaded
C16_OneOfThreeLoaded ==
    /\ detail.pc = 0
    /\ detail.subject # NULL
    /\ Len(detail.lessons) = 3
    /\ completedLessons(detail.lessons) = 1

\* the position of lesson l in the display order
RecPosition(l) ==
    CHOOSE i \in DOMAIN rec.tables.lessons : rec.tables.lessons[i] = l

\* the exercises of lesson l
RecExercises(l) ==
    {e \in DOMAIN rec.tables.lesson_id : rec.tables.lesson_id[e] = l}

\* the exercises of lesson l whose most recent attempt in the log is correct
RecMastered(l) ==
    {e \in RecExercises(l) :
        \E i \in DOMAIN rec.attempts :
           /\ rec.attempts[i].exercise_id = e
           /\ rec.attempts[i].is_correct = 1
           /\ \A j \in DOMAIN rec.attempts :
                 j > i => rec.attempts[j].exercise_id # e}

\* the lessons that qualify: they have exercises and, where the lessons with
\* a perfect record are excluded, an exercise not mastered
RecQualifying ==
    {l \in {rec.tables.lessons[i] : i \in DOMAIN rec.tables.lessons} :
        /\ RecExercises(l) # {}
        /\ rec.excludePerfect => RecMastered(l) # RecExercises(l)}

\* the lessons of the list returned
RecReturned ==
    {rec.result.list[i].lesson_id : i \in DOMAIN rec.result.list}

\* C17: the list returned for the count N holds exactly min(N, number of
\* qualifying lessons) lessons, each once and each qualifying; it is empty
\* when N <= 0 or no lesson qualifies.
C17_RecommendationLength ==
    rec.result.called =>
        LET N == rec.result.limit
            q == Cardinality(RecQualifying)
        IN  /\ Len(rec.result.list) =
                  (IF N <= 0 THEN 0 ELSE IF N < q THEN N ELSE q)
            /\ Cardinality(RecReturned) = Len(rec.result.list)
            /\ RecReturned \subseteq RecQualifying

\* the function was asked for three lessons where two qualify
C17_FewerThanAsked ==
    /\ rec.result.called
    /\ rec.result.limit = RECOMMENDED_COUNT
    /\ Cardinality(RecQualifying) = 2
    /\ Len(rec.tables.lessons) > 2
    /\ rec.attempts # <<>>

\* C18: the list is in descending order of weakness score, lessons of equal
\* score in display order; no lesson left out is weaker than one returned,
\* so a lesson with every exercise mastered is not returned while a lesson
\* with an exercise not mastered is left out.
C18_RecommendationOrder ==
    rec.result.called =>
        LET list == rec.result.list
            weak(l) == Cardinality(RecExercises(l) \ RecMastered(l))
            total(l) == Cardinality(RecExercises(l))
            \* the score of l is above / equal to the score of m
            above(l, m) == weak(l) * total(m) > weak(m) * total(l)
            equal(l, m) == weak(l) * total(m) = weak(m) * total(l)
        IN  /\ \A i, j \in DOMAIN list :
                  i < j =>
                     \/ above(list[i].lesson_id, list[j].lesson_id)
                     \/ /\ equal(list[i].lesson_id, list[j].lesson_id)
                        /\ RecPosition(list[i].lesson_id)
                              < RecPosition(list[j].lesson_id)
            /\ \A l \in RecReturned, m \in RecQualifying \ RecReturned :
                  ~above(m, l)
            /\ \A l \in RecReturned, m \in RecQualifying \ RecReturned :
                  RecMastered(l) = RecExercises(l)
                     => RecMastered(m) = RecExercises(m)

\* a lesson later in the display order was returned ahead of an earlier one,
\* and a qualifying lesson was left out
C18_WeakerFirst ==
    /\ rec.result.called
    /\ Len(rec.result.list) = 2
    /\ RecPosition(rec.result.list[1].lesson_id)
          > RecPosition(rec.result.list[2].lesson_id)
    /\ RecQualifying \ RecReturned # {}

\* C19: the weakness score of a lesson is the number of its exercises with
\* no attempt or an incorrect most recent attempt, over the number of its
\* exercises; it lies in [0, 1], is 1 when none of its exercises was
\* attempted, and is 0.5 for four exercises of which two are mastered.
C19_WeaknessScore ==
    rec.result.called =>
        /\ {rec.result.scored[i].lesson_id : i \in DOMAIN rec.result.scored}
              = {l \in {rec.tables.lessons[i] : i \in DOMAIN rec.tables.lessons} :
                    RecExercises(l) # {}}
        /\ \A i \in DOMAIN rec.result.scored :
              LET l == rec.result.scored[i].lesson_id
                  score == rec.result.scored[i].score
                  weak == Cardinality(RecExercises(l) \ RecMastered(l))
                  total == Cardinality(RecExercises(l))
                  attempted == {rec.attempts[k].exercise_id :
                                   k \in DOMAIN rec.attempts}
              IN  /\ score.den > 0
                  /\ score.num * total = weak * score.den
                  /\ 0 <= score.num
                  /\ score.num <= score.den
                  /\ RecExercises(l) \cap attempted = {}
                        => score.num = score.den
                  /\ total = 4 /\ Cardinality(RecMastered(l)) = 2
                        => 2 * score.num = score.den

\* the lesson with four exercises was scored with two of them answered
\* correctly, one answered incorrectly and one not attempted
C19_FourExercisesHalf ==
    /\ rec.result.called
    /\ \E i \in DOMAIN rec.result.scored :
          LET l == rec.result.scored[i].lesson_id
          IN  /\ Cardinality(RecExercises(l)) = 4
              /\ Cardinality(RecMastered(l)) = 2
              /\ Len(rec.attempts) = 3
              /\ \E k \in DOMAIN rec.attempts : rec.attempts[k].is_correct = 0
              /\ Cardinality({rec.attempts[k].exercise_id :
                                 k \in DOMAIN rec.attempts}) = 3

\* C20: POST /api/pdf/qa answers 400 when question or contextText is missing,
\* 400 when answerLang is omitted or is not "ar" or "fr", 500 when the call
\* of the language-model API fails, and 200 with a non-empty answer when the
\* fields are valid and the call succeeds.
C20_QaResponses ==
    qa.pc \in {"done", "failed"} =>
        LET missing == \/ qa.body.question \in {undefined, ""}
                       \/ qa.body.contextText \in {undefined, ""}
            badLang == qa.body.answerLang \notin {"ar", "fr"}
        IN  /\ missing => qa.res.status = 400
            /\ badLang => qa.res.status = 400
            /\ ~missing /\ ~badLang /\ qa.pc = "failed" => qa.res.status = 500
            /\ ~missing /\ ~badLang /\ qa.pc = "done" /\ qa.call # NoCall =>
                  /\ qa.res.status = 200
                  /\ qa.res.answer \notin {undefined, ""}

\* C22: with fewer than 30 exercises in the store, none included, the mock
\* exam runs on the exercises there are: no render of the exam screen reads
\* a current exercise that is not there, and the result screen does not
\* divide by an exercise count of zero.
C22_FewExercisesNoError ==
    (mockMounted /\ ~mock.isLoading /\ Len(mock.exercises) < MOCK_EXAM_QUESTIONS)
        => /\ ~Mock_renderThrows(mock)
           /\ Mock_screen(mock) = "complete" => Len(mock.exercises) # 0

\* C26: a step taken while the exam screen is shown leaves the answers list
\* as long as the exercise list, which it does not change, and currentIndex
\* within the list; an entry that changes is the current exercise's and
\* becomes the option selected, so that every entry is null, as the load left
\* it, or the option chosen last for its exercise.
C26_AnswersAndIndex ==
    [][/\ (Mock_examShown /\ ~mock'.isLoading) =>
             /\ mock'.exercises = mock.exercises
             /\ Len(mock'.answers) = Len(mock'.exercises)
             /\ mock'.currentIndex >= 0
             /\ mock'.currentIndex <= Len(mock'.exercises) - 1
             /\ \A i \in 1..Len(mock.answers) :
                   mock'.answers[i] # mock.answers[i]
                      => /\ i = mock.currentIndex + 1
                         /\ mock'.answers[i] \in Options
       /\ (mock.isLoading /\ ~mock'.isLoading) =>
             /\ Len(mock'.answers) = Len(mock'.exercises)
             /\ \A i \in 1..Len(mock'.answers) : mock'.answers[i] = NULL]_vars

\* the second of two exercises was answered, the first was not, and the
\* learner has gone back to the first
C26_SecondAnsweredFirstShown ==
    /\ Mock_examShown
    /\ mockView = mock
    /\ Len(mock.exercises) = 2
    /\ mock.currentIndex = 0
    /\ mock.answers[1] = NULL
    /\ mock.answers[2] # NULL

\* C27: the clock of the mock exam starts at 3600 seconds (the model's
\* scaled start stands for it), and while the screen stays mounted it never
\* goes up, never goes below 0, goes down by one second at a time, and does
\* not go down while the exercises are loading.
C27_ClockCountsDown ==
    /\ [](/\ MOCK_EXAM_DURATION = 3600
          /\ mock.timeLeft >= 0
          /\ mock.timeLeft <= InitialTimeLeft
          /\ mock.isLoading => mock.timeLeft = InitialTimeLeft)
    /\ [][mockMounted' =>
             /\ mock'.timeLeft <= mock.timeLeft
             /\ mock'.timeLeft >= mock.timeLeft - 1
             /\ mock.isLoading => mock'.timeLeft = mock.timeLeft]_vars

\* the clock has run from its start down to zero on a mounted screen whose
\* result is not yet shown
C27_ClockRanOut ==
    /\ mockMounted
    /\ ~mock.isLoading
    /\ mock.timeLeft = 0
    /\ InitialTimeLeft >= 2
    /\ Mock_screen(mockView) = "main"

\* the exercises of the session that have entered Reviewing
QuizReviewed(s) ==
    s.currentIndex + (IF s.showResult \/ s.isComplete THEN 1 ELSE 0)

C25_CurrentExerciseDefined ==
    (quizMounted /\ ~quiz.isLoading /\ ~quiz.isComplete
                 /\ Len(quiz.exercises) > 0)
        => /\ quiz.currentIndex >= 0
           /\ quiz.currentIndex < Len(quiz.exercises)

\* C28: the list a load of the quiz sets holds at most 10 exercises; with a
\* lesson requested they all belong to it, and with a difficulty requested
\* they all have it.
C28_QuizListWithinRequest ==
    load.pc = "done" =>
        /\ Len(load.exercises) <= 10
        /\ \A i \in DOMAIN load.exercises :
              /\ \A n \in {1, 2} :
                    load.params.lessonId = <<"1", "2">>[n]
                       => load.exercises[i].lesson_id = n
              /\ load.params.difficulty = "1"
                    => load.exercises[i].difficulty = 1

\* lesson 1 was requested, the store holding more than ten exercises of it
C28_TenOfLesson ==
    /\ load.pc = "done"
    /\ load.params.lessonId = "1"
    /\ load.params.difficulty = undefined
    /\ load.table.split > 10
    /\ Len(load.exercises) = 10

\* C21: POST /api/pdf/extract sends one response per request: 400 when the
\* file is missing or is not declared a PDF, 500 when the parser fails, 422
\* when the text it returns holds nothing but white space, and otherwise 200
\* with the file's name, the pages and a text that is not empty; the parser
\* is called at most once.
C21_ExtractResponses ==
    /\ extract.sent <= 1
    /\ extract.parses <= 1
    /\ extract.pc = "done" =>
          LET file == extract.file
              notPdf == /\ file.mimetype # "application/pdf"
                        /\ file.originalname \notin {"a.pdf", "A.PDF"}
              blank == \/ ~extract.data.hasText
                       \/ \A i \in DOMAIN extract.data.text :
                             extract.data.text[i] \in Whitespace
              res == extract.res
          IN  /\ extract.sent = 1
              /\ ~file.present => res.status = 400
              /\ file.present /\ notPdf => res.status = 400
              /\ file.present /\ ~notPdf /\ extract.failed => res.status = 500
              /\ file.present /\ ~notPdf /\ ~extract.failed /\ blank
                    => res.status = 422
              /\ file.present /\ ~notPdf /\ ~extract.failed /\ ~blank
                    => /\ res.status = 200
                       /\ res.filename = file.originalname
                       /\ res.pages = extract.data.numpages
                       /\ res.text # <<>>
                       /\ \E i \in DOMAIN res.text : res.text[i] = "a"

\* a file named .PDF of another declared type was parsed, and its text, which
\* carries white space around a letter, was returned
C21_ExtractedUpperCaseName ==
    /\ extract.pc = "done"
    /\ extract.file.originalname = "A.PDF"
    /\ extract.file.mimetype = "image/png"
    /\ extract.res.status = 200
    /\ Len(extract.data.text) > Len(extract.res.text)

\* the cells of AppProvider that hold the result of a query of the store
AppQueried == {"settings", "subjects", "subjectProgress", "recommendedLessons",
               "todayMinutes"}

\* C23: when the last call in flight settles, the calls so far being the
\* initialization and refreshes that all ran to their end without a failure,
\* every queried field of the view-model comes from the store as it is now.
C23_QuiescentViewIsCurrent ==
    [][(/\ \E k \in 1..Len(refreshes) : App_running(k)
        /\ \A k \in 1..Len(refreshes') :
              /\ refreshes'[k].outcome = "fulfilled"
              /\ ~refreshes'[k].failed
              /\ refreshes'[k].kind \in {"init", "refresh"}
        /\ \E k \in 1..Len(refreshes) :
              App_running(k) /\ refreshes[k].kind = "refresh")
       => \A f \in AppQueried : app'.cells[f].rev = store'.rev]_vars

\* C29: when an operation of the context settles, no operation so far having
\* failed, and the app is not loading, isInitialized is true exactly when the
\* settings the view-model holds have onboarding_complete equal to 1.
C29_InitializedIffOnboarded ==
    [][\A k \in 1..Len(refreshes) :
          (/\ App_running(k)
           /\ refreshes'[k].outcome = "fulfilled"
           /\ \A j \in 1..Len(refreshes') : ~refreshes'[j].failed
           /\ ~app'.cells.isLoading)
          => (app'.cells.isInitialized
                 <=> app'.cells.settings.onboarding_complete = 1)]_vars

\* C30: every load leaves the loading state: whenever isLoading of the app is
\* true it is false later, and whenever isLoading of the quiz or of the mock
\* exam is true it is false later or the screen has been left.
C30_LoadingEnds ==
    /\ app.cells.isLoading ~> ~app.cells.isLoading
    /\ (quizMounted /\ quiz.isLoading) ~> (~quizMounted \/ ~quiz.isLoading)
    /\ (mockMounted /\ mock.isLoading) ~> (~mockMounted \/ ~mock.isLoading)

\* a reset whose store failed has left the loading state, and so has the
\* quiz, which holds no exercise
C30_LoadedAfterFailures ==
    /\ \E k \in 1..Len(refreshes) :
          /\ refreshes[k].kind = "reset"
          /\ refreshes[k].failed
    /\ \A k \in 1..Len(refreshes) : ~App_running(k)
    /\ ~app.cells.isLoading
    /\ quizMounted /\ ~quiz.isLoading /\ quiz.exercises = <<>>

====
